---------------------------- MODULE Spec2Model ----------------------------
(***************************************************************************)
(* Payroll engine of yc6002-payroll: the contract strategies and the       *)
(* London weighting decorator (domain.py), the strategy factory and the    *)
(* payroll service (payroll_service.py), the repositories                  *)
(* (repositories.py) and the SQLite connection discipline (db.py).         *)
(*                                                                         *)
(* Numbers.  Python floats are modelled as exact decimal fixed-point       *)
(* numbers with two decimals: the float v is the integer 100 * v.  The     *)
(* inputs are chosen so that every product below is exact.                 *)
(*                                                                         *)
(* Strings.  A str is the tuple of its characters, so that str.upper() is  *)
(* a computation on the characters and not the identity.                   *)
(*                                                                         *)
(* Optional[T].  None is the empty tuple, a present value v is <<v>>.      *)
(***************************************************************************)
EXTENDS Integers, Sequences, FiniteSets, TLC

VARIABLES
    \* ---- the SQLite database file (db.py) ----
    employees,        \* committed rows of table employees
    contracts,        \* committed rows of table contracts
    payroll_runs,     \* committed rows of table payroll_runs
    sqlite_sequence,  \* AUTOINCREMENT: last id handed out, per table
    txn,              \* the open write transaction: None or <<[owner, row]>>
    \* ---- one run_payroll_for_employee call per caller ----
    pc,               \* position of each caller in run_payroll_for_employee
    args,             \* the call's arguments
    employee,         \* local variable employee
    contract,         \* local variable contract
    payroll_run,      \* local variable payroll_run
    outcome,          \* what the last call returned or raised
    \* ---- the strategy layer exercised on its own (domain.py) ----
    strategy,         \* None, or <<a strategy object>>
    evaluations,      \* the calls strategy.calculate_gross_pay(h) made so far:
                      \* records [hours_worked, gross_pay]
    \* ---- the factory exercised on its own (payroll_service.py) ----
    fac_employee,     \* None, or <<the Employee passed to the factory>>
    fac_contract,     \* None, or <<the Contract passed to the factory>>
    fac_outcome       \* None, or <<what the factory returned or raised>>

db_vars == <<employees, contracts, payroll_runs, sqlite_sequence, txn>>
call_vars == <<pc, args, employee, contract, payroll_run, outcome>>
calc_vars == <<strategy, evaluations, fac_employee, fac_contract, fac_outcome>>
vars == <<employees, contracts, payroll_runs, sqlite_sequence, txn,
          pc, args, employee, contract, payroll_run, outcome,
          strategy, evaluations, fac_employee, fac_contract, fac_outcome>>

-----------------------------------------------------------------------------
(* Optional values and floats *)

None == <<>>

Some(v) == <<v>>

\* The float whole.hundredths, e.g. Float(2, 50) is 2.5.
Float(whole, hundredths) == whole * 100 + hundredths

\* Float multiplication a * b.
FMul(a, b) == (a * b) \div 100

\* Python's built-in min and max on two numbers.
min(a, b) == IF b < a THEN b ELSE a

max(a, b) == IF b > a THEN b ELSE a

-----------------------------------------------------------------------------
(* Strings *)

LowerCase == <<"a", "b", "c", "d", "e", "f", "g", "h", "i", "j", "k", "l", "m",
               "n", "o", "p", "q", "r", "s", "t", "u", "v", "w", "x", "y", "z">>

UpperCase == <<"A", "B", "C", "D", "E", "F", "G", "H", "I", "J", "K", "L", "M",
               "N", "O", "P", "Q", "R", "S", "T", "U", "V", "W", "X", "Y", "Z">>

\* str.upper(): every cased character is replaced by its uppercase form.
upper(s) ==
    [i \in DOMAIN s |->
        IF \E k \in DOMAIN LowerCase : LowerCase[k] = s[i]
        THEN UpperCase[CHOOSE k \in DOMAIN LowerCase : LowerCase[k] = s[i]]
        ELSE s[i]]

\* The string literals of payroll_service.py.
STR_SALARIED == <<"S", "A", "L", "A", "R", "I", "E", "D">>

STR_PART_TIME == <<"P", "A", "R", "T", "_", "T", "I", "M", "E">>

STR_HOURLY == <<"H", "O", "U", "R", "L", "Y">>

STR_LONDON == <<"L", "O", "N", "D", "O", "N">>

-----------------------------------------------------------------------------
(* domain.py: strategies *)

SalariedStrategy(base_salary) ==
    [kind |-> "SalariedStrategy", base_salary |-> base_salary]

PartTimeStrategy(base_salary, hourly_rate, contract_hours) ==
    [kind |-> "PartTimeStrategy", base_salary |-> base_salary,
     hourly_rate |-> hourly_rate, contract_hours |-> contract_hours]

HourlyStrategy(hourly_rate) ==
    [kind |-> "HourlyStrategy", hourly_rate |-> hourly_rate]

LondonWeightingDecorator(inner) ==
    [kind |-> "LondonWeightingDecorator", inner |-> inner]

\* Mutant: the salary is paid pro rata of a 37-hour period.
Salaried_pro_rata(self, hours) == FMul(self.base_salary, hours) \div 37

\* SalariedStrategy.calculate_gross_pay
Salaried_calculate_gross_pay(self, hours) == self.base_salary

\* Mutant: overtime is counted from 37 hours, as for an hourly contract.
PartTime_overtime_from_37(self, hours) ==
    LET overtime_hours == max(Float(0, 0), hours - Float(37, 0))
        overtime_pay == FMul(FMul(overtime_hours, self.hourly_rate), Float(2, 50))
    IN  self.base_salary + overtime_pay

\* Mutant: the overtime hours are not clamped at zero.
PartTime_unclamped(self, hours) ==
    LET overtime_hours == hours - self.contract_hours
        overtime_pay == FMul(FMul(overtime_hours, self.hourly_rate), Float(2, 50))
    IN  self.base_salary + overtime_pay

\* PartTimeStrategy.calculate_gross_pay
PartTime_calculate_gross_pay(self, hours) ==
    LET overtime_hours == max(Float(0, 0), hours - self.contract_hours)
        overtime_pay == FMul(FMul(overtime_hours, self.hourly_rate), Float(2, 50))
    IN  self.base_salary + overtime_pay

\* Mutant: negative hours are paid nothing.
Hourly_negative_hours_unpaid(self, hours) ==
    IF hours < 0 THEN 0
    ELSE FMul(min(hours, Float(37, 0)), self.hourly_rate)
         + FMul(FMul(max(Float(0, 0), hours - Float(37, 0)), self.hourly_rate),
                Float(2, 50))

\* Mutant: once over 37 hours, every hour is paid at the overtime rate.
Hourly_all_hours_overtime(self, hours) ==
    IF hours > Float(37, 0)
    THEN FMul(FMul(hours, self.hourly_rate), Float(2, 50))
    ELSE FMul(hours, self.hourly_rate)

\* HourlyStrategy.calculate_gross_pay
Hourly_calculate_gross_pay(self, hours) ==
    LET regular_hours == min(hours, Float(37, 0))
        overtime_hours == max(Float(0, 0), hours - Float(37, 0))
        regular_pay == FMul(regular_hours, self.hourly_rate)
        overtime_pay == FMul(FMul(overtime_hours, self.hourly_rate), Float(2, 50))
    IN  regular_pay + overtime_pay

\* Mutant: the weighting is taken off, not added.
London_weighting_subtracted(base_pay) == FMul(base_pay, Float(0, 80))

\* Mutant: a 2% uplift.
London_two_percent(base_pay) == FMul(base_pay, Float(1, 2))

\* LondonWeightingDecorator.calculate_gross_pay, given the inner result.
London_calculate_gross_pay(base_pay) == FMul(base_pay, Float(1, 20))

\* Dynamic dispatch of strategy.calculate_gross_pay(hours_worked).
RECURSIVE calculate_gross_pay(_, _)
calculate_gross_pay(self, hours) ==
    CASE self.kind = "SalariedStrategy" -> Salaried_calculate_gross_pay(self, hours)
      [] self.kind = "PartTimeStrategy" -> PartTime_calculate_gross_pay(self, hours)
      [] self.kind = "HourlyStrategy" -> Hourly_calculate_gross_pay(self, hours)
      [] self.kind = "LondonWeightingDecorator" ->
            London_calculate_gross_pay(calculate_gross_pay(self.inner, hours))

-----------------------------------------------------------------------------
(* Outcomes of a call *)

Return(v) == [kind |-> "return", value |-> v]

Raise(type, message) == [kind |-> "raise", type |-> type, message |-> message]

-----------------------------------------------------------------------------
(* payroll_service.py: the strategy factory *)

\* Mutant: the branch is compared as typed.
factory_is_london_case_sensitive(emp) == emp.branch = STR_LONDON

\* The test of line 57: is the strategy to be decorated?
factory_is_london(emp) == upper(emp.branch) = STR_LONDON

\* Mutant: a salaried contract is also required to carry an hourly rate.
factory_salaried_needs_rate(emp, con) ==
    LET contract_type == upper(emp.contract_type)
    IN  CASE contract_type = STR_SALARIED ->
                IF con.base_salary = None \/ con.hourly_rate = None
                THEN Raise("ValueError", "Base salary is required for salaried contract.")
                ELSE Return(SalariedStrategy(con.base_salary[1]))
          [] contract_type = STR_PART_TIME ->
                IF \/ con.base_salary = None
                   \/ con.hourly_rate = None
                   \/ con.contract_hours = None
                THEN Raise("ValueError",
                           "Base salary, hourly rate and contract hours are required for part-time contract.")
                ELSE Return(PartTimeStrategy(con.base_salary[1], con.hourly_rate[1],
                                             con.contract_hours[1]))
          [] contract_type = STR_HOURLY ->
                IF con.hourly_rate = None
                THEN Raise("ValueError", "Hourly rate is required for hourly contract.")
                ELSE Return(HourlyStrategy(con.hourly_rate[1]))
          [] OTHER -> Raise("ValueError", "Unknown contract type")

\* Mutant: the final branch is an else, every other type is paid by the hour.
factory_else_is_hourly(emp, con) ==
    LET contract_type == upper(emp.contract_type)
    IN  CASE contract_type = STR_SALARIED ->
                IF con.base_salary = None
                THEN Raise("ValueError", "Base salary is required for salaried contract.")
                ELSE Return(SalariedStrategy(con.base_salary[1]))
          [] contract_type = STR_PART_TIME ->
                IF \/ con.base_salary = None
                   \/ con.hourly_rate = None
                   \/ con.contract_hours = None
                THEN Raise("ValueError",
                           "Base salary, hourly rate and contract hours are required for part-time contract.")
                ELSE Return(PartTimeStrategy(con.base_salary[1], con.hourly_rate[1],
                                             con.contract_hours[1]))
          [] OTHER ->
                IF con.hourly_rate = None
                THEN Raise("ValueError", "Hourly rate is required for hourly contract.")
                ELSE Return(HourlyStrategy(con.hourly_rate[1]))

\* Lines 27-55: the undecorated strategy for the employee's contract type.
factory_base_strategy(emp, con) ==
    LET contract_type == upper(emp.contract_type)
    IN  CASE contract_type = STR_SALARIED ->
                IF con.base_salary = None
                THEN Raise("ValueError", "Base salary is required for salaried contract.")
                ELSE Return(SalariedStrategy(con.base_salary[1]))
          [] contract_type = STR_PART_TIME ->
                IF \/ con.base_salary = None
                   \/ con.hourly_rate = None
                   \/ con.contract_hours = None
                THEN Raise("ValueError",
                           "Base salary, hourly rate and contract hours are required for part-time contract.")
                ELSE Return(PartTimeStrategy(con.base_salary[1], con.hourly_rate[1],
                                             con.contract_hours[1]))
          [] contract_type = STR_HOURLY ->
                IF con.hourly_rate = None
                THEN Raise("ValueError", "Hourly rate is required for hourly contract.")
                ELSE Return(HourlyStrategy(con.hourly_rate[1]))
          [] OTHER -> Raise("ValueError", "Unknown contract type")

create_contract_strategy_for_employee(emp, con) ==
    LET base == factory_base_strategy(emp, con)
    IN  IF base.kind = "raise" THEN base
        ELSE IF factory_is_london(emp)
             THEN Return(LondonWeightingDecorator(base.value))
             ELSE base

-----------------------------------------------------------------------------
(* datetime.date and its ISO text form.  A date is <<year, month, day>>;   *)
(* a TEXT value of the database is the tuple of its character codes, so    *)
(* that SQLite's ORDER BY compares what it really compares.                *)

\* The decimal digits of n, zero-padded to the given width, as character codes.
RECURSIVE digits(_, _)
digits(n, width) ==
    IF width = 0 THEN <<>>
    ELSE Append(digits(n \div 10, width - 1), 48 + (n % 10))

\* date.isoformat(): YYYY-MM-DD
isoformat(d) == digits(d[1], 4) \o <<45>> \o digits(d[2], 2) \o <<45>> \o digits(d[3], 2)

\* int() of a run of digit characters.
RECURSIVE number(_)
number(s) ==
    IF s = <<>> THEN 0
    ELSE 10 * number(SubSeq(s, 1, Len(s) - 1)) + (s[Len(s)] - 48)

\* date.fromisoformat()
fromisoformat(s) ==
    <<number(SubSeq(s, 1, 4)), number(SubSeq(s, 6, 7)), number(SubSeq(s, 9, 10))>>

\* SQLite's BINARY collation on TEXT: a < b.
text_less(a, b) ==
    \/ \E i \in 1..min(Len(a), Len(b)) :
            /\ a[i] < b[i]
            /\ \A j \in 1..(i - 1) : a[j] = b[j]
    \/ /\ Len(a) < Len(b)
       /\ \A j \in 1..Len(a) : a[j] = b[j]

-----------------------------------------------------------------------------
(* repositories.py and db.py.                                               *)
(* An employee row carries id, ni_number (UNIQUE), branch and              *)
(* contract_type; first_name, last_name, address, start_date and           *)
(* department are stored and read back unchanged and play no part in       *)
(* payroll.  created_at of a payroll run (the wall clock) is left out.     *)

\* Mutant: the id is the last one the table handed out.
next_id_reused(table) ==
    IF sqlite_sequence[table] = 0 THEN 1 ELSE sqlite_sequence[table]

\* AUTOINCREMENT: the next id of a table.
next_id(table) == sqlite_sequence[table] + 1

\* EmployeeRepository._row_to_employee
row_to_employee(row) ==
    [id |-> row.id, ni_number |-> row.ni_number, branch |-> row.branch,
     contract_type |-> row.contract_type]

\* Mutant: the WHERE clause is missing, any row is returned.
EmployeeRepository_get_any(employee_id) ==
    IF employees # {}
    THEN Some(row_to_employee(CHOOSE row \in employees : TRUE))
    ELSE None

\* EmployeeRepository.get: Optional[Employee]
EmployeeRepository_get(employee_id) ==
    IF \E row \in employees : row.id = employee_id
    THEN Some(row_to_employee(CHOOSE row \in employees : row.id = employee_id))
    ELSE None

\* ContractRepository._row_to_contract
row_to_contract(row) ==
    [id |-> row.id, employee_id |-> row.employee_id,
     base_salary |-> row.base_salary, hourly_rate |-> row.hourly_rate,
     contract_hours |-> row.contract_hours,
     effective_from |-> fromisoformat(row.effective_from),
     effective_to |-> IF row.effective_to # None
                      THEN Some(fromisoformat(row.effective_to[1])) ELSE None]

\* Mutant: the WHERE clause is missing.
active_rows_of_anyone(employee_id) ==
    {row \in contracts :
        \A other \in contracts : ~ text_less(row.effective_from, other.effective_from)}

\* Mutant: the query also asks for effective_to IS NULL.
active_rows_open_ended(employee_id) ==
    {row \in contracts :
        /\ row.employee_id = employee_id
        /\ row.effective_to = None
        /\ \A other \in contracts :
              (other.employee_id = employee_id /\ other.effective_to = None) =>
                  ~ text_less(row.effective_from, other.effective_from)}

\* The rows SELECT ... WHERE employee_id = ? ORDER BY effective_from DESC
\* LIMIT 1 may return: SQL leaves the order among equal keys open.
active_rows(employee_id) ==
    {row \in contracts :
        /\ row.employee_id = employee_id
        /\ \A other \in contracts :
              other.employee_id = employee_id =>
                  ~ text_less(row.effective_from, other.effective_from)}

\* ContractRepository.get_active_for_employee: the possible results.
ContractRepository_get_active_for_employee(employee_id) ==
    IF active_rows(employee_id) = {} THEN {None}
    ELSE {Some(row_to_contract(row)) : row \in active_rows(employee_id)}

\* Mutant: gross pay and flag are computed again, from what is stored when
\* the row is inserted.
payroll_run_row_rereading(id, run) ==
    LET emp == row_to_employee(CHOOSE e \in employees : e.id = run.employee_id)
        con == row_to_contract(CHOOSE r \in active_rows(run.employee_id) : TRUE)
        resolved == create_contract_strategy_for_employee(emp, con)
    IN  [id |-> id, employee_id |-> run.employee_id,
         pay_period_start |-> isoformat(run.pay_period_start),
         pay_period_end |-> isoformat(run.pay_period_end),
         hours_worked |-> run.hours_worked,
         gross_pay |-> calculate_gross_pay(resolved.value, run.hours_worked),
         london_weighting_applied |-> IF upper(emp.branch) = STR_LONDON THEN 1 ELSE 0]

\* The row PayrollRunRepository.add inserts for a PayrollRun.
payroll_run_row(id, run) ==
    [id |-> id, employee_id |-> run.employee_id,
     pay_period_start |-> isoformat(run.pay_period_start),
     pay_period_end |-> isoformat(run.pay_period_end),
     hours_worked |-> run.hours_worked, gross_pay |-> run.gross_pay,
     london_weighting_applied |-> IF run.london_weighting_applied THEN 1 ELSE 0]

\* Mutant: the commit is missing.
commit_missing(table, t) == table

\* Mutant: the connection commits on every exit.
close_commits(table, t) == table \cup {t.row}

\* Mutant: INSERT OR REPLACE on the employee and the pay period.
commit_replacing(table, t) ==
    {row \in table :
        ~ (/\ row.employee_id = t.row.employee_id
           /\ row.pay_period_start = t.row.pay_period_start
           /\ row.pay_period_end = t.row.pay_period_end)} \cup {t.row}

\* Mutant: a run equal to a stored one in all but its id is not stored again.
commit_deduplicating(table, t) ==
    IF \E row \in table : [row EXCEPT !.id = t.row.id] = t.row
    THEN table
    ELSE table \cup {t.row}

\* get_connection, normal exit of the with block: connection.commit().
\* The table after the transaction's row is committed.
commit(table, t) == table \cup {t.row}

\* get_connection, exit by an exception: connection.close() without commit
\* rolls the transaction back.  The table afterwards.
close_without_commit(table, t) == table

-----------------------------------------------------------------------------
(* payroll_service.py: PayrollService.run_payroll_for_employee              *)

\* Mutant: the flag is taken from the branch as typed.
service_is_london_case_sensitive(emp) == emp.branch = STR_LONDON

\* The test of line 95: the flag recorded on the run.
service_is_london(emp) == upper(emp.branch) = STR_LONDON

\* Mutant: gross pay is computed by the undecorated strategy.
build_payroll_run_undecorated(emp, con, a) ==
    LET resolved == factory_base_strategy(emp, con)
    IN  IF resolved.kind = "raise" THEN resolved
        ELSE Return([id |-> None,
                     employee_id |-> emp.id,
                     pay_period_start |-> a.pay_period_start,
                     pay_period_end |-> a.pay_period_end,
                     hours_worked |-> a.hours_worked,
                     gross_pay |-> calculate_gross_pay(resolved.value, a.hours_worked),
                     london_weighting_applied |-> service_is_london(emp)])

\* Lines 93-105: from the employee and the contract read, the PayrollRun
\* to persist, or the factory's exception.
build_payroll_run(emp, con, a) ==
    LET resolved == create_contract_strategy_for_employee(emp, con)
    IN  IF resolved.kind = "raise" THEN resolved
        ELSE Return([id |-> None,
                     employee_id |-> emp.id,
                     pay_period_start |-> a.pay_period_start,
                     pay_period_end |-> a.pay_period_end,
                     hours_worked |-> a.hours_worked,
                     gross_pay |-> calculate_gross_pay(resolved.value, a.hours_worked),
                     london_weighting_applied |-> service_is_london(emp)])

\* Mutant: the id handed back by the repository is dropped.
returned_run_without_id(run, run_id) == run

\* Lines 108-109: payroll_run.id = run_id; return payroll_run
returned_run(run, run_id) == [run EXCEPT !.id = Some(run_id)]

EmployeeNotFound == Raise("ValueError", "Employee with id {employee_id} not found.")

NoActiveContract == Raise("ValueError", "No active contract found for employee {employee_id}.")

DatabaseLocked == Raise("sqlite3.OperationalError", "database is locked")

-----------------------------------------------------------------------------
(* The system: the database file shared by the callers of the service      *)
(* (the command-line application app.py and the desktop application        *)
(* gui_app.py), and the registration flows that add employees and          *)
(* contracts.                                                               *)

Callers == {"cli", "gui"}

\* Bounds: the ids each table hands out.
MaxEmployees == 1

MaxContracts == 1

MaxRuns == 2

\* The ids callers name: those the table can hand out, and one it never does.
EmployeeIds == 1..(MaxEmployees + 1)

NINumbers == {<<"Q", "Q", "1">>, <<"Q", "Q", "2">>}

\* The employees registered: branch and contract type as typed in.
SpecEmployees ==
    {[branch |-> <<"L", "o", "n", "d", "o", "n">>,
      contract_type |-> <<"h", "o", "u", "r", "l", "y">>],
     [branch |-> <<"Y", "e", "o", "v", "i", "l">>, contract_type |-> STR_SALARIED],
     [branch |-> <<"Y", "e", "o", "v", "i", "l">>,
      contract_type |-> <<"C", "O", "N", "T", "R", "A", "C", "T", "O", "R">>]}

SpecTerms ==
    {[base_salary |-> None, hourly_rate |-> Some(Float(10, 0)), contract_hours |-> None],
     [base_salary |-> Some(Float(2000, 0)), hourly_rate |-> None, contract_hours |-> None]}

SpecDates == {<<2024, 2, 10>>}

SpecHours == {Float(40, 0)}

SpecPeriods == {<<(<<2024, 3, 1>>), (<<2024, 3, 31>>)>>}

Init ==
    /\ employees = {} /\ contracts = {} /\ payroll_runs = {}
    /\ sqlite_sequence = [employees |-> 0, contracts |-> 0, payroll_runs |-> 0]
    /\ txn = None
    /\ pc = [c \in Callers |-> "idle"]
    /\ args = [c \in Callers |-> None]
    /\ employee = [c \in Callers |-> None]
    /\ contract = [c \in Callers |-> None]
    /\ payroll_run = [c \in Callers |-> None]
    /\ outcome = [c \in Callers |-> None]
    /\ strategy = None /\ evaluations = {}
    /\ fac_employee = None /\ fac_contract = None /\ fac_outcome = None

\* Mutant: an employee of an unrecognised contract type is not stored.
AddEmployee_validating(e) ==
    /\ txn = None
    /\ next_id("employees") <= MaxEmployees
    /\ \A row \in employees : row.ni_number # e.ni_number
    /\ upper(e.contract_type) \in {STR_SALARIED, STR_PART_TIME, STR_HOURLY}
    /\ employees' = employees \cup
            {[id |-> next_id("employees"), ni_number |-> e.ni_number,
              branch |-> e.branch, contract_type |-> upper(e.contract_type)]}
    /\ sqlite_sequence' = [sqlite_sequence EXCEPT !.employees = next_id("employees")]
    /\ UNCHANGED <<contracts, payroll_runs, txn, call_vars, calc_vars>>

\* EmployeeRepository.add, one transaction.  A duplicate ni_number raises
\* IntegrityError and the transaction is rolled back: nothing changes.
AddEmployee(e) ==
    /\ txn = None
    /\ next_id("employees") <= MaxEmployees
    /\ \A row \in employees : row.ni_number # e.ni_number
    /\ employees' = employees \cup
            {[id |-> next_id("employees"), ni_number |-> e.ni_number,
              branch |-> e.branch, contract_type |-> upper(e.contract_type)]}
    /\ sqlite_sequence' = [sqlite_sequence EXCEPT !.employees = next_id("employees")]
    /\ UNCHANGED <<contracts, payroll_runs, txn, call_vars, calc_vars>>

\* ContractRepository.add, one transaction.
AddContract(con) ==
    /\ txn = None
    /\ next_id("contracts") <= MaxContracts
    /\ contracts' = contracts \cup
            {[id |-> next_id("contracts"), employee_id |-> con.employee_id,
              base_salary |-> con.base_salary, hourly_rate |-> con.hourly_rate,
              contract_hours |-> con.contract_hours,
              effective_from |-> isoformat(con.effective_from),
              effective_to |-> IF con.effective_to # None
                               THEN Some(isoformat(con.effective_to[1])) ELSE None]}
    /\ sqlite_sequence' = [sqlite_sequence EXCEPT !.contracts = next_id("contracts")]
    /\ UNCHANGED <<employees, payroll_runs, txn, call_vars, calc_vars>>

\* The number of calls that may still insert a run.
InProgress == Cardinality({c \in Callers : pc[c] # "idle"})

\* A caller enters run_payroll_for_employee.
Call(c, a) ==
    /\ pc[c] = "idle"
    /\ sqlite_sequence.payroll_runs + InProgress < MaxRuns
    /\ pc' = [pc EXCEPT ![c] = "get_employee"]
    /\ args' = [args EXCEPT ![c] = Some(a)]
    /\ outcome' = [outcome EXCEPT ![c] = None]
    /\ UNCHANGED <<employee, contract, payroll_run, db_vars, calc_vars>>

\* The call ends: its locals die, the caller holds what it returned or raised.
Leave(c, result) ==
    /\ pc' = [pc EXCEPT ![c] = "idle"]
    /\ employee' = [employee EXCEPT ![c] = None]
    /\ contract' = [contract EXCEPT ![c] = None]
    /\ payroll_run' = [payroll_run EXCEPT ![c] = None]
    /\ args' = [args EXCEPT ![c] = None]
    /\ outcome' = [outcome EXCEPT ![c] = Some(result)]

\* Lines 83-85.
GetEmployee(c) ==
    /\ pc[c] = "get_employee"
    /\ LET found == EmployeeRepository_get(args[c][1].employee_id)
       IN  IF found = None
           THEN Leave(c, EmployeeNotFound)
           ELSE /\ employee' = [employee EXCEPT ![c] = found]
                /\ pc' = [pc EXCEPT ![c] = "get_active_contract"]
                /\ UNCHANGED <<args, contract, payroll_run, outcome>>
    /\ UNCHANGED <<db_vars, calc_vars>>

\* Mutant: the contract type is checked before the contract is looked up.
GetActiveContract_type_first(c) ==
    /\ pc[c] = "get_active_contract"
    /\ IF upper(employee[c][1].contract_type) \notin {STR_SALARIED, STR_PART_TIME, STR_HOURLY}
       THEN Leave(c, Raise("ValueError", "Unknown contract type"))
       ELSE \E found \in ContractRepository_get_active_for_employee(args[c][1].employee_id) :
              IF found = None
              THEN Leave(c, NoActiveContract)
              ELSE LET built == build_payroll_run(employee[c][1], found[1], args[c][1])
                   IN  IF built.kind = "raise"
                       THEN Leave(c, built)
                       ELSE /\ contract' = [contract EXCEPT ![c] = found]
                            /\ payroll_run' = [payroll_run EXCEPT ![c] = Some(built.value)]
                            /\ pc' = [pc EXCEPT ![c] = "insert"]
                            /\ UNCHANGED <<args, employee, outcome>>
    /\ UNCHANGED <<db_vars, calc_vars>>

\* Lines 87-105.
GetActiveContract(c) ==
    /\ pc[c] = "get_active_contract"
    /\ \E found \in ContractRepository_get_active_for_employee(args[c][1].employee_id) :
          IF found = None
          THEN Leave(c, NoActiveContract)
          ELSE LET built == build_payroll_run(employee[c][1], found[1], args[c][1])
               IN  IF built.kind = "raise"
                   THEN Leave(c, built)
                   ELSE /\ contract' = [contract EXCEPT ![c] = found]
                        /\ payroll_run' = [payroll_run EXCEPT ![c] = Some(built.value)]
                        /\ pc' = [pc EXCEPT ![c] = "insert"]
                        /\ UNCHANGED <<args, employee, outcome>>
    /\ UNCHANGED <<db_vars, calc_vars>>

\* Line 107, PayrollRunRepository.add: cursor.execute(INSERT ...) opens the
\* write transaction; the row is not yet visible to other connections.
InsertRun(c) ==
    /\ pc[c] = "insert"
    /\ txn = None
    /\ txn' = Some([owner |-> c,
                    row |-> payroll_run_row(next_id("payroll_runs"), payroll_run[c][1])])
    /\ pc' = [pc EXCEPT ![c] = "commit"]
    /\ UNCHANGED <<employees, contracts, payroll_runs, sqlite_sequence>>
    /\ UNCHANGED <<args, employee, contract, payroll_run, outcome, calc_vars>>

\* Line 107: another connection holds the write lock for longer than the
\* busy timeout; execute raises and get_connection closes the connection.
InsertLocked(c) ==
    /\ pc[c] = "insert"
    /\ txn # None
    /\ Leave(c, DatabaseLocked)
    /\ UNCHANGED <<db_vars, calc_vars>>

\* Lines 107-109: the with block of PayrollRunRepository.add exits,
\* get_connection commits, the run takes the id and is returned.
CommitRun(c) ==
    /\ pc[c] = "commit"
    /\ txn # None /\ txn[1].owner = c
    /\ payroll_runs' = commit(payroll_runs, txn[1])
    /\ sqlite_sequence' = [sqlite_sequence EXCEPT !.payroll_runs = txn[1].row.id]
    /\ txn' = None
    /\ Leave(c, Return(returned_run(payroll_run[c][1], txn[1].row.id)))
    /\ UNCHANGED <<employees, contracts, calc_vars>>

\* Mutant: after a failed commit the insert is tried again.
CommitFails_retries(c) ==
    /\ pc[c] = "commit"
    /\ txn # None /\ txn[1].owner = c
    /\ payroll_runs' = close_without_commit(payroll_runs, txn[1])
    /\ txn' = None
    /\ pc' = [pc EXCEPT ![c] = "insert"]
    /\ UNCHANGED <<args, employee, contract, payroll_run, outcome>>
    /\ UNCHANGED <<employees, contracts, sqlite_sequence, calc_vars>>

\* connection.commit() raises: get_connection closes the connection
\* without a commit, which rolls the transaction back.
CommitFails(c) ==
    /\ pc[c] = "commit"
    /\ txn # None /\ txn[1].owner = c
    /\ payroll_runs' = close_without_commit(payroll_runs, txn[1])
    /\ txn' = None
    /\ Leave(c, Raise("sqlite3.OperationalError", "commit failed"))
    /\ UNCHANGED <<employees, contracts, sqlite_sequence, calc_vars>>

Next ==
    \/ \E n \in NINumbers, e \in SpecEmployees :
          AddEmployee([ni_number |-> n, branch |-> e.branch,
                       contract_type |-> e.contract_type])
    \/ \E i \in EmployeeIds, terms \in SpecTerms, d \in SpecDates :
          AddContract([employee_id |-> i, base_salary |-> terms.base_salary,
                       hourly_rate |-> terms.hourly_rate,
                       contract_hours |-> terms.contract_hours,
                       effective_from |-> d, effective_to |-> None])
    \/ \E c \in Callers, i \in EmployeeIds, h \in SpecHours, p \in SpecPeriods :
          Call(c, [employee_id |-> i, hours_worked |-> h,
                   pay_period_start |-> p[1], pay_period_end |-> p[2]])
    \/ \E c \in Callers :
          \/ GetEmployee(c)
          \/ GetActiveContract(c)
          \/ InsertRun(c)
          \/ InsertLocked(c)
          \/ CommitRun(c)
          \/ CommitFails(c)

Spec == Init /\ [][Next]_vars

-----------------------------------------------------------------------------
(* The strategy layer and the factory exercised on their own.               *)
(* CalcInit draws either the constructor arguments of a strategy or the    *)
(* arguments of the factory; the actions call the code on them.            *)

\* Bounds.
MaxDecorators == 2

MaxEvaluations == 2

\* hours_worked: negative, zero, below, at and above the 37-hour threshold.
HoursValues ==
    {Float(-5, 0), Float(0, 0), Float(20, 0), Float(36, 50), Float(37, 0),
     Float(37, 50), Float(40, 0), Float(200, 0)}

SalaryValues == {Float(0, 0), Float(800, 0), Float(2000, 0)}

RateValues == {Float(0, 0), Float(10, 0), Float(15, 0)}

ContractHoursValues == {Float(0, 0), Float(20, 0), Float(37, 50)}

BaseStrategies ==
    {SalariedStrategy(b) : b \in SalaryValues}
    \cup {PartTimeStrategy(b, r, c) :
            b \in SalaryValues, r \in RateValues, c \in ContractHoursValues}
    \cup {HourlyStrategy(r) : r \in RateValues}

BranchValues ==
    {<<"L", "o", "n", "d", "o", "n">>, <<"l", "o", "n", "d", "o", "n">>,
     <<"L", "O", "N", "D", "O", "N">>, <<"l", "O", "n", "D", "o", "N">>,
     <<"Y", "e", "o", "v", "i", "l">>, <<"L", "o", "n", "d", "o">>,
     <<"L", "o", "n", "d", "o", "n", " ">>, <<>>}

ContractTypeValues ==
    {STR_SALARIED, STR_PART_TIME, STR_HOURLY,
     <<"s", "a", "l", "a", "r", "i", "e", "d">>,
     <<"P", "a", "r", "t", "_", "T", "i", "m", "e">>,
     <<"h", "o", "u", "r", "l", "y">>,
     <<"C", "O", "N", "T", "R", "A", "C", "T", "O", "R">>,
     <<"P", "A", "R", "T", "-", "T", "I", "M", "E">>, <<>>}

\* The terms of a contract: each of the three is optional.
TermsValues ==
    [base_salary : {None, Some(Float(2000, 0))},
     hourly_rate : {None, Some(Float(10, 0))},
     contract_hours : {None, Some(Float(20, 0))}]

\* Nesting depth of decorators around a strategy.
RECURSIVE decorators(_)
decorators(s) ==
    IF s.kind = "LondonWeightingDecorator" THEN 1 + decorators(s.inner) ELSE 0

CalcInit ==
    /\ employees = {} /\ contracts = {} /\ payroll_runs = {}
    /\ sqlite_sequence = <<>> /\ txn = None
    /\ pc = <<>> /\ args = <<>> /\ employee = <<>> /\ contract = <<>>
    /\ payroll_run = <<>> /\ outcome = <<>>
    /\ evaluations = {}
    /\ fac_outcome = None
    /\ \/ /\ strategy \in {Some(s) : s \in BaseStrategies}
          /\ fac_employee = None
          /\ fac_contract = None
       \/ /\ strategy = None
          /\ fac_employee \in {Some([branch |-> b, contract_type |-> t]) :
                                 b \in BranchValues, t \in ContractTypeValues}
          /\ fac_contract \in {Some(c) : c \in TermsValues}

\* strategy = LondonWeightingDecorator(strategy)
Decorate ==
    /\ strategy # None
    /\ fac_employee = None
    /\ decorators(strategy[1]) < MaxDecorators
    /\ strategy' = Some(LondonWeightingDecorator(strategy[1]))
    /\ evaluations' = {}
    /\ UNCHANGED <<fac_employee, fac_contract, fac_outcome>>
    /\ UNCHANGED <<db_vars, call_vars>>

\* strategy = create_contract_strategy_for_employee(employee, contract)
Resolve ==
    /\ fac_employee # None
    /\ fac_outcome = None
    /\ LET r == create_contract_strategy_for_employee(fac_employee[1], fac_contract[1])
       IN  /\ fac_outcome' = Some(r)
           /\ strategy' = IF r.kind = "return" THEN Some(r.value) ELSE None
    /\ UNCHANGED <<evaluations, fac_employee, fac_contract>>
    /\ UNCHANGED <<db_vars, call_vars>>

\* gross_pay = strategy.calculate_gross_pay(h)
Evaluate(h) ==
    /\ strategy # None
    /\ Cardinality(evaluations) < MaxEvaluations
    /\ evaluations' = evaluations \cup
            {[hours_worked |-> h, gross_pay |-> calculate_gross_pay(strategy[1], h)]}
    /\ UNCHANGED <<strategy, fac_employee, fac_contract, fac_outcome>>
    /\ UNCHANGED <<db_vars, call_vars>>

CalcNext ==
    \/ Decorate
    \/ Resolve
    \/ \E h \in HoursValues : Evaluate(h)

SpecCalc == CalcInit /\ [][CalcNext]_vars

-----------------------------------------------------------------------------
(* One caller running payroll against a database that registration has     *)
(* already filled: one employee and up to two contracts of that employee,  *)
(* with contract dates before and after the pay period, equal dates, and   *)
(* a contract that expired before the period.  Nothing else writes to the  *)
(* database during the calls, and storage does not fail.                   *)

RunCaller == "cli"

RunBranches ==
    {<<"L", "o", "n", "d", "o", "n">>, <<"L", "O", "N", "D", "O", "N">>,
     <<"Y", "e", "o", "v", "i", "l">>}

\* contract_type as EmployeeRepository.add stores it.
RunContractTypes == {upper(STR_HOURLY), upper(STR_SALARIED), upper(STR_PART_TIME)}

\* The terms of the first and of the second contract.
RunTerms ==
    <<[base_salary |-> Some(Float(2000, 0)), hourly_rate |-> Some(Float(10, 0)),
       contract_hours |-> Some(Float(20, 0))],
      [base_salary |-> Some(Float(3000, 0)), hourly_rate |-> Some(Float(20, 0)),
       contract_hours |-> Some(Float(20, 0))]>>

\* effective_from and effective_to of a contract.
RunValidity ==
    {[effective_from |-> <<2023, 11, 5>>, effective_to |-> None],
     [effective_from |-> <<2024, 2, 10>>, effective_to |-> None],
     [effective_from |-> <<2024, 2, 10>>, effective_to |-> Some(<<2024, 2, 20>>)],
     [effective_from |-> <<2024, 10, 2>>, effective_to |-> None]}

\* hours_worked: negative, zero and above the threshold.
RunHours == {Float(-5, 0), Float(0, 0), Float(40, 0)}

\* The row ContractRepository.add stores for the i-th contract.
RunContractRow(i, v) ==
    [id |-> i, employee_id |-> 1,
     base_salary |-> RunTerms[i].base_salary, hourly_rate |-> RunTerms[i].hourly_rate,
     contract_hours |-> RunTerms[i].contract_hours,
     effective_from |-> isoformat(v.effective_from),
     effective_to |-> IF v.effective_to # None
                      THEN Some(isoformat(v.effective_to[1])) ELSE None]

RunInit ==
    /\ employees \in {{[id |-> 1, ni_number |-> <<"Q", "Q", "1">>, branch |-> b,
                        contract_type |-> t]} :
                          b \in RunBranches, t \in RunContractTypes}
    /\ contracts \in {{}}
                     \cup {{RunContractRow(1, v)} : v \in RunValidity}
                     \cup {{RunContractRow(1, v), RunContractRow(2, w)} :
                              v \in RunValidity, w \in RunValidity}
    /\ payroll_runs = {}
    /\ sqlite_sequence = [employees |-> 1, contracts |-> Cardinality(contracts),
                          payroll_runs |-> 0]
    /\ txn = None
    /\ pc = [c \in Callers |-> "idle"]
    /\ args = [c \in Callers |-> None]
    /\ employee = [c \in Callers |-> None]
    /\ contract = [c \in Callers |-> None]
    /\ payroll_run = [c \in Callers |-> None]
    /\ outcome = [c \in Callers |-> None]
    /\ strategy = None /\ evaluations = {}
    /\ fac_employee = None /\ fac_contract = None /\ fac_outcome = None

RunNext ==
    \/ \E h \in RunHours, p \in SpecPeriods :
          Call(RunCaller, [employee_id |-> 1, hours_worked |-> h,
                           pay_period_start |-> p[1], pay_period_end |-> p[2]])
    \/ GetEmployee(RunCaller)
    \/ GetActiveContract(RunCaller)
    \/ InsertRun(RunCaller)
    \/ CommitRun(RunCaller)

SpecRun == RunInit /\ [][RunNext]_vars

-----------------------------------------------------------------------------
(* One caller running payroll while another edits the employee and adds a  *)
(* contract: each edit is one transaction of its own, between the steps of *)
(* the call.                                                                *)

\* Mutant: the contract type is stored as typed.
UpdateEmployee_as_typed(e) ==
    /\ txn = None
    /\ \A row \in employees : row.id # e.id => row.ni_number # e.ni_number
    /\ employees' =
          {IF row.id = e.id
           THEN [id |-> e.id, ni_number |-> e.ni_number, branch |-> e.branch,
                 contract_type |-> e.contract_type]
           ELSE row : row \in employees}
    /\ UNCHANGED <<contracts, payroll_runs, sqlite_sequence, txn, call_vars, calc_vars>>

\* EmployeeRepository.update, one transaction: every column of the row with
\* the employee's id is overwritten.  A ni_number another row holds raises
\* IntegrityError and nothing changes.
UpdateEmployee(e) ==
    /\ txn = None
    /\ \A row \in employees : row.id # e.id => row.ni_number # e.ni_number
    /\ employees' =
          {IF row.id = e.id
           THEN [id |-> e.id, ni_number |-> e.ni_number, branch |-> e.branch,
                 contract_type |-> upper(e.contract_type)]
           ELSE row : row \in employees}
    /\ UNCHANGED <<contracts, payroll_runs, sqlite_sequence, txn, call_vars, calc_vars>>

\* ContractRepository.add of a further contract of an employee who has one.
AddFurtherContract(con) ==
    /\ txn = None
    /\ contracts # {}
    /\ next_id("contracts") <= MaxContracts + 1
    /\ contracts' = contracts \cup
            {[id |-> next_id("contracts"), employee_id |-> con.employee_id,
              base_salary |-> con.base_salary, hourly_rate |-> con.hourly_rate,
              contract_hours |-> con.contract_hours,
              effective_from |-> isoformat(con.effective_from),
              effective_to |-> IF con.effective_to # None
                               THEN Some(isoformat(con.effective_to[1])) ELSE None]}
    /\ sqlite_sequence' = [sqlite_sequence EXCEPT !.contracts = next_id("contracts")]
    /\ UNCHANGED <<employees, payroll_runs, txn, call_vars, calc_vars>>

\* The edits of employee 1: moved to Yeovil on a salary, and back.
RaceEdits ==
    {[id |-> 1, ni_number |-> <<"Q", "Q", "1">>,
      branch |-> <<"Y", "e", "o", "v", "i", "l">>,
      contract_type |-> <<"s", "a", "l", "a", "r", "i", "e", "d">>],
     [id |-> 1, ni_number |-> <<"Q", "Q", "1">>,
      branch |-> <<"L", "o", "n", "d", "o", "n">>,
      contract_type |-> <<"h", "o", "u", "r", "l", "y">>]}

\* The contract added during the call: in force from a later date.
RaceContract ==
    [employee_id |-> 1,
     base_salary |-> RunTerms[2].base_salary, hourly_rate |-> RunTerms[2].hourly_rate,
     contract_hours |-> RunTerms[2].contract_hours,
     effective_from |-> <<2024, 2, 20>>, effective_to |-> None]

RaceInit ==
    /\ employees = {[id |-> 1, ni_number |-> <<"Q", "Q", "1">>,
                     branch |-> <<"L", "o", "n", "d", "o", "n">>,
                     contract_type |-> upper(STR_HOURLY)]}
    /\ contracts = {RunContractRow(1, [effective_from |-> <<2024, 2, 10>>,
                                       effective_to |-> None])}
    /\ payroll_runs = {}
    /\ sqlite_sequence = [employees |-> 1, contracts |-> 1, payroll_runs |-> 0]
    /\ txn = None
    /\ pc = [c \in Callers |-> "idle"]
    /\ args = [c \in Callers |-> None]
    /\ employee = [c \in Callers |-> None]
    /\ contract = [c \in Callers |-> None]
    /\ payroll_run = [c \in Callers |-> None]
    /\ outcome = [c \in Callers |-> None]
    /\ strategy = None /\ evaluations = {}
    /\ fac_employee = None /\ fac_contract = None /\ fac_outcome = None

RaceNext ==
    \/ \E p \in SpecPeriods :
          Call(RunCaller, [employee_id |-> 1, hours_worked |-> Float(40, 0),
                           pay_period_start |-> p[1], pay_period_end |-> p[2]])
    \/ GetEmployee(RunCaller)
    \/ GetActiveContract(RunCaller)
    \/ InsertRun(RunCaller)
    \/ CommitRun(RunCaller)
    \/ \E e \in RaceEdits : UpdateEmployee(e)
    \/ AddFurtherContract(RaceContract)

SpecRace == RaceInit /\ [][RaceNext]_vars

-----------------------------------------------------------------------------
(* Registration: an employee is typed in with a contract type in any       *)
(* casing, stored, edited, and resolved by the factory as typed.           *)

\* The contract types typed in when an employee is edited.
EditTypes ==
    {<<"p", "a", "r", "t", "_", "t", "i", "m", "e">>, <<"H", "o", "u", "r", "l", "y">>,
     <<"c", "o", "n", "t", "r", "a", "c", "t", "o", "r">>}

RegisterTypes == ContractTypeValues \cup EditTypes

RegisterBranches == {<<"L", "o", "n", "d", "o", "n">>, <<"Y", "e", "o", "v", "i", "l">>}

RegisterInit ==
    /\ employees = {} /\ contracts = {} /\ payroll_runs = {}
    /\ sqlite_sequence = [employees |-> 0, contracts |-> 0, payroll_runs |-> 0]
    /\ txn = None
    /\ pc = [c \in Callers |-> "idle"]
    /\ args = [c \in Callers |-> None]
    /\ employee = [c \in Callers |-> None]
    /\ contract = [c \in Callers |-> None]
    /\ payroll_run = [c \in Callers |-> None]
    /\ outcome = [c \in Callers |-> None]
    /\ strategy = None /\ evaluations = {}
    /\ fac_outcome = None
    /\ fac_employee \in {Some([branch |-> b, contract_type |-> t]) :
                           b \in RegisterBranches, t \in RegisterTypes}
    /\ fac_contract \in {Some(c) : c \in TermsValues}

RegisterNext ==
    \/ \E n \in NINumbers :
          AddEmployee([ni_number |-> n, branch |-> fac_employee[1].branch,
                       contract_type |-> fac_employee[1].contract_type])
    \/ \E row \in employees, t \in EditTypes :
          UpdateEmployee([id |-> row.id, ni_number |-> row.ni_number,
                          branch |-> row.branch, contract_type |-> t])
    \/ Resolve

SpecRegister == RegisterInit /\ [][RegisterNext]_vars

-----------------------------------------------------------------------------
(* Properties of run_payroll_for_employee (specification Spec) *)

\* Caller c takes a step of its call.
Steps(c) == pc'[c] # pc[c]

\* The step ends c's call with a returned PayrollRun.
Returns(c) ==
    /\ pc[c] # "idle" /\ pc'[c] = "idle"
    /\ outcome'[c] # None /\ outcome'[c][1].kind = "return"

\* The step ends c's call with an exception.
Fails(c) ==
    /\ pc[c] # "idle" /\ pc'[c] = "idle"
    /\ outcome'[c] # None /\ outcome'[c][1].kind = "raise"

RunColumns ==
    {"id", "employee_id", "pay_period_start", "pay_period_end", "hours_worked",
     "gross_pay", "london_weighting_applied"}

\* A payroll_runs row with every column set, for the given call.
FullRow(row, a) ==
    /\ DOMAIN row = RunColumns
    /\ row.id \in Nat \ {0}
    /\ row.employee_id = a.employee_id
    /\ row.pay_period_start = isoformat(a.pay_period_start)
    /\ row.pay_period_end = isoformat(a.pay_period_end)
    /\ row.hours_worked = a.hours_worked
    /\ row.gross_pay \in Int
    /\ row.london_weighting_applied \in {0, 1}

\* C1: a successful call appends exactly one fully populated row to
\* payroll_runs, no other step of the system changes payroll_runs, and a
\* row is either committed whole or absent: an uncommitted row is not in
\* the table.
C1_ExactlyOneRowPerSuccess ==
    [][/\ \A c \in Callers :
            Returns(c) =>
                \E row \in payroll_runs' \ payroll_runs :
                    /\ payroll_runs' = payroll_runs \cup {row}
                    /\ Cardinality(payroll_runs') = Cardinality(payroll_runs) + 1
                    /\ FullRow(row, args[c][1])
                    /\ outcome'[c][1].value.id = Some(row.id)
       /\ payroll_runs' # payroll_runs => \E c \in Callers : Returns(c)
       /\ txn' # None => \A row \in payroll_runs' : row.id # txn'[1].row.id
      ]_vars

C1_Witness ==
    \E c \in Callers :
        /\ outcome[c] # None /\ outcome[c][1].kind = "return"
        /\ \E row \in payroll_runs : Some(row.id) = outcome[c][1].value.id
        /\ Cardinality(payroll_runs) = 1

\* C2: a step of a call that does not end it with a returned run leaves
\* payroll_runs as it was, so a call that fails has changed nothing; when it
\* fails, no row of the call is left pending, and a failure of the factory
\* reaches the caller as the factory raised it.
C2_FailureChangesNothing ==
    [][\A c \in Callers :
        /\ (Steps(c) /\ ~ Returns(c)) => payroll_runs' = payroll_runs
        /\ Fails(c) => (txn' = None \/ txn'[1].owner # c)
        /\ (Fails(c) /\ pc[c] = "get_active_contract"
                     /\ active_rows(args[c][1].employee_id) # {}) =>
                \E row \in active_rows(args[c][1].employee_id) :
                    outcome'[c][1] =
                        create_contract_strategy_for_employee(employee[c][1],
                                                              row_to_contract(row))
      ]_vars

C2_Witness ==
    \E c \in Callers :
        /\ outcome[c] = Some(Raise("ValueError", "Hourly rate is required for hourly contract."))
        /\ contracts # {}
        /\ payroll_runs = {}

\* C3: when the employee_id is not in the employee table, the call fails
\* with "employee not found" and payroll_runs is unchanged.
C3_EmployeeNotFound ==
    [][\A c \in Callers :
        (/\ pc[c] = "get_employee" /\ Steps(c)
         /\ \A row \in employees : row.id # args[c][1].employee_id) =>
            /\ Fails(c)
            /\ outcome'[c][1] =
                    Raise("ValueError", "Employee with id {employee_id} not found.")
            /\ payroll_runs' = payroll_runs
            /\ txn' = txn
      ]_vars

C3_Witness ==
    \E c \in Callers :
        /\ outcome[c] =
              Some(Raise("ValueError", "Employee with id {employee_id} not found."))
        /\ employees # {}
        /\ payroll_runs = {}

\* C4: a call whose employee exists fails with "no active contract" if and
\* only if the contract table holds no row of that employee, and then
\* payroll_runs is unchanged.
C4_NoActiveContract ==
    [][\A c \in Callers :
        (pc[c] = "get_active_contract" /\ Steps(c)) =>
            LET own == {row \in contracts : row.employee_id = args[c][1].employee_id}
                failed == /\ Fails(c)
                          /\ outcome'[c][1] =
                                Raise("ValueError",
                                      "No active contract found for employee {employee_id}.")
            IN  /\ employee[c] # None
                /\ failed <=> own = {}
                /\ failed => payroll_runs' = payroll_runs /\ txn' = txn
      ]_vars

C4_Witness ==
    \E c \in Callers :
        /\ outcome[c] =
              Some(Raise("ValueError", "No active contract found for employee {employee_id}."))
        /\ contracts # {}

-----------------------------------------------------------------------------
(* Properties of the strategies and of the factory (specification SpecCalc) *)

\* The strategy under evaluation is of the given class.
IsA(kind) == strategy # None /\ strategy[1].kind = kind

\* C5: HourlyStrategy pays min(h, 37) * r + max(0, h - 37) * r * 2.5; at 37
\* hours 37 * r, at 40 hours 37 * r + 3 * r * 2.5.  (Amounts are in
\* hundredths, so both sides are scaled to whole numbers.)
C5_HourlyFormula ==
    IsA("HourlyStrategy") =>
        \A e \in evaluations :
            LET h == e.hours_worked
                r == strategy[1].hourly_rate
                regular == IF h <= 3700 THEN h ELSE 3700
                overtime == IF h > 3700 THEN h - 3700 ELSE 0
            IN  /\ 1000 * e.gross_pay = 10 * regular * r + 25 * overtime * r
                /\ h = 3700 => e.gross_pay = 37 * r
                /\ h = 4000 => 10 * e.gross_pay = 370 * r + 3 * r * 25

C5_Witness ==
    /\ strategy = Some(HourlyStrategy(Float(10, 0)))
    /\ [hours_worked |-> Float(40, 0), gross_pay |-> Float(445, 0)] \in evaluations
    /\ [hours_worked |-> Float(37, 0), gross_pay |-> Float(370, 0)] \in evaluations

\* C6: PartTimeStrategy pays b + max(0, h - c) * r * 2.5 for every h.
C6_PartTimeFormula ==
    IsA("PartTimeStrategy") =>
        \A e \in evaluations :
            LET h == e.hours_worked
                b == strategy[1].base_salary
                r == strategy[1].hourly_rate
                c == strategy[1].contract_hours
                overtime == IF h > c THEN h - c ELSE 0
            IN  1000 * e.gross_pay = 1000 * b + 25 * overtime * r

C6_Witness ==
    /\ strategy = Some(PartTimeStrategy(Float(2000, 0), Float(10, 0), Float(20, 0)))
    /\ [hours_worked |-> Float(40, 0), gross_pay |-> Float(2500, 0)] \in evaluations

\* C7 as stated: for non-negative terms, gross pay is strictly increasing
\* in the hours above contract_hours and is base_salary up to contract_hours.
C7_Original ==
    (/\ IsA("PartTimeStrategy")
     /\ strategy[1].base_salary >= 0 /\ strategy[1].hourly_rate >= 0
     /\ strategy[1].contract_hours >= 0) =>
        \A e1, e2 \in evaluations :
            /\ (/\ strategy[1].contract_hours < e1.hours_worked
                /\ e1.hours_worked < e2.hours_worked) => e1.gross_pay < e2.gross_pay
            /\ e1.hours_worked <= strategy[1].contract_hours =>
                    e1.gross_pay = strategy[1].base_salary

\* C7 amended: strictly increasing above contract_hours when hourly_rate is
\* positive; with hourly_rate zero gross pay is base_salary at all hours; up
\* to contract_hours it is base_salary.
C7_Amended ==
    (/\ IsA("PartTimeStrategy")
     /\ strategy[1].base_salary >= 0 /\ strategy[1].hourly_rate >= 0
     /\ strategy[1].contract_hours >= 0) =>
        \A e1, e2 \in evaluations :
            /\ (/\ strategy[1].hourly_rate > 0
                /\ strategy[1].contract_hours < e1.hours_worked
                /\ e1.hours_worked < e2.hours_worked) => e1.gross_pay < e2.gross_pay
            /\ strategy[1].hourly_rate = 0 => e1.gross_pay = strategy[1].base_salary
            /\ e1.hours_worked <= strategy[1].contract_hours =>
                    e1.gross_pay = strategy[1].base_salary

C7_Witness ==
    /\ strategy = Some(PartTimeStrategy(Float(800, 0), Float(15, 0), Float(37, 50)))
    /\ [hours_worked |-> Float(40, 0), gross_pay |-> Float(893, 75)] \in evaluations
    /\ [hours_worked |-> Float(200, 0), gross_pay |-> Float(6893, 75)] \in evaluations

\* C8: SalariedStrategy pays base_salary whatever the hours.
C8_SalariedIgnoresHours ==
    IsA("SalariedStrategy") =>
        \A e \in evaluations : e.gross_pay = strategy[1].base_salary

C8_Witness ==
    /\ strategy = Some(SalariedStrategy(Float(2000, 0)))
    /\ [hours_worked |-> Float(0, 0), gross_pay |-> Float(2000, 0)] \in evaluations
    /\ [hours_worked |-> Float(200, 0), gross_pay |-> Float(2000, 0)] \in evaluations

\* C9: the decorator pays exactly 1.20 times what the strategy it wraps
\* pays for the same hours.
C9_WeightingIsTwentyPercent ==
    IsA("LondonWeightingDecorator") =>
        \A e \in evaluations :
            100 * e.gross_pay =
                120 * calculate_gross_pay(strategy[1].inner, e.hours_worked)

C9_Witness ==
    /\ strategy = Some(LondonWeightingDecorator(HourlyStrategy(Float(10, 0))))
    /\ [hours_worked |-> Float(40, 0), gross_pay |-> Float(534, 0)] \in evaluations

\* The letters of "london", each in its two cases.
LondonLetters ==
    <<{"L", "l"}, {"O", "o"}, {"N", "n"}, {"D", "d"}, {"O", "o"}, {"N", "n"}>>

\* The branch is "LONDON" up to the case of its letters.
IsLondonIgnoringCase(branch) ==
    /\ Len(branch) = Len(LondonLetters)
    /\ \A i \in DOMAIN LondonLetters : branch[i] \in LondonLetters[i]

\* C10: the factory decorates the strategy if and only if the employee's
\* branch is "LONDON" up to case, and never more than once.
C10_WeightedIffLondon ==
    (fac_outcome # None /\ fac_outcome[1].kind = "return") =>
        /\ (fac_outcome[1].value.kind = "LondonWeightingDecorator")
                <=> IsLondonIgnoringCase(fac_employee[1].branch)
        /\ decorators(fac_outcome[1].value) <= 1

C10_Witness ==
    /\ fac_outcome # None /\ fac_outcome[1].kind = "return"
    /\ fac_employee[1].branch = <<"l", "o", "n", "d", "o", "n">>
    /\ fac_outcome[1].value.kind = "LondonWeightingDecorator"
    /\ decorators(fac_outcome[1].value) = 1

-----------------------------------------------------------------------------
(* Properties of the persisted run (specification SpecRun) *)

\* C11: for every persisted run, london_weighting_applied is set if and
\* only if the strategy the factory returns for the run's employee and
\* contract is a LondonWeightingDecorator, and gross_pay is what that
\* strategy pays for the hours of the run.
C11_FlagMatchesWeighting ==
    \A row \in payroll_runs :
        \E emp \in employees, con \in contracts :
            /\ emp.id = row.employee_id
            /\ con.employee_id = row.employee_id
            /\ LET resolved == create_contract_strategy_for_employee(
                                   row_to_employee(emp), row_to_contract(con))
               IN  /\ resolved.kind = "return"
                   /\ row.gross_pay = calculate_gross_pay(resolved.value, row.hours_worked)
                   /\ (row.london_weighting_applied = 1)
                        <=> (resolved.value.kind = "LondonWeightingDecorator")

C11_Witness ==
    /\ \E emp \in employees : emp.branch = <<"L", "o", "n", "d", "o", "n">>
    /\ \E row \in payroll_runs :
          row.london_weighting_applied = 1 /\ row.gross_pay = Float(534, 0)

-----------------------------------------------------------------------------
(* Properties of the factory's failures (specification SpecCalc) *)

\* Two strings are equal up to the case of their letters.
SameIgnoringCase(s, t) ==
    /\ Len(s) = Len(t)
    /\ \A i \in 1..Len(s) :
          \/ s[i] = t[i]
          \/ \E k \in DOMAIN LowerCase : {s[i], t[i]} = {LowerCase[k], UpperCase[k]}

\* C12: the factory raises for a SALARIED employee if and only if
\* base_salary is absent, for a PART_TIME employee if and only if any of
\* base_salary, hourly_rate and contract_hours is absent, for an HOURLY
\* employee if and only if hourly_rate is absent; the exception is a
\* ValueError naming the missing field, and the fields the type does not
\* require play no part.
C12_FailsIffRequiredFieldAbsent ==
    fac_outcome # None =>
        LET t == fac_employee[1].contract_type
            con == fac_contract[1]
            o == fac_outcome[1]
            failed == o.kind = "raise"
        IN  /\ SameIgnoringCase(t, STR_SALARIED) =>
                  /\ failed <=> con.base_salary = None
                  /\ failed => o = Raise("ValueError",
                                         "Base salary is required for salaried contract.")
            /\ SameIgnoringCase(t, STR_PART_TIME) =>
                  /\ failed <=> (\/ con.base_salary = None
                                 \/ con.hourly_rate = None
                                 \/ con.contract_hours = None)
                  /\ failed => o = Raise("ValueError",
                                         "Base salary, hourly rate and contract hours are required for part-time contract.")
            /\ SameIgnoringCase(t, STR_HOURLY) =>
                  /\ failed <=> con.hourly_rate = None
                  /\ failed => o = Raise("ValueError",
                                         "Hourly rate is required for hourly contract.")

C12_Witness ==
    /\ fac_outcome # None /\ fac_outcome[1].kind = "raise"
    /\ fac_employee[1].contract_type = STR_PART_TIME
    /\ fac_contract[1].base_salary # None
    /\ fac_contract[1].hourly_rate # None
    /\ fac_contract[1].contract_hours = None

\* C13: for a contract type that is none of SALARIED, PART_TIME and HOURLY
\* the factory raises ValueError "Unknown contract type", whatever fields
\* the contract carries and whatever the branch.
C13_UnknownContractType ==
    (/\ fac_outcome # None
     /\ \A known \in {STR_SALARIED, STR_PART_TIME, STR_HOURLY} :
            ~ SameIgnoringCase(fac_employee[1].contract_type, known)) =>
        fac_outcome[1] = Raise("ValueError", "Unknown contract type")

C13_Witness ==
    /\ fac_outcome = Some(Raise("ValueError", "Unknown contract type"))
    /\ fac_employee[1].contract_type =
            <<"C", "O", "N", "T", "R", "A", "C", "T", "O", "R">>
    /\ fac_employee[1].branch = <<"L", "o", "n", "d", "o", "n">>
    /\ fac_contract[1].base_salary # None
    /\ fac_contract[1].hourly_rate # None
    /\ fac_contract[1].contract_hours # None

-----------------------------------------------------------------------------
(* Properties of the contract selection (specification SpecRun) *)

\* datetime.date a < b
DateLess(a, b) ==
    \/ a[1] < b[1]
    \/ a[1] = b[1] /\ a[2] < b[2]
    \/ a[1] = b[1] /\ a[2] = b[2] /\ a[3] < b[3]

\* The contracts of the employee a call names, as Contract objects.
OwnContracts(a) ==
    {row_to_contract(row) : row \in {r \in contracts : r.employee_id = a.employee_id}}

\* C14: the contract a call selects took effect at or before the end of the
\* run's pay period, and no other contract of the employee that took effect
\* by then took effect later than it.
C14_SelectedAtOrBeforeRun ==
    \A c \in Callers :
        pc[c] \in {"insert", "commit"} =>
            LET sel == contract[c][1]
                a == args[c][1]
            IN  /\ ~ DateLess(a.pay_period_end, sel.effective_from)
                /\ \A other \in OwnContracts(a) :
                      ~ DateLess(a.pay_period_end, other.effective_from) =>
                          ~ DateLess(sel.effective_from, other.effective_from)

\* C15: the contract a call selects is one of the employee's contracts whose
\* effective_from is the latest, whatever its effective_to, and the run's
\* gross pay is computed from that contract.
C15_ExpiredContractStillSelected ==
    \A c \in Callers :
        pc[c] \in {"insert", "commit"} =>
            LET sel == contract[c][1]
                a == args[c][1]
            IN  /\ sel \in OwnContracts(a)
                /\ \A other \in OwnContracts(a) :
                      ~ DateLess(sel.effective_from, other.effective_from)
                /\ payroll_run[c][1].gross_pay =
                      calculate_gross_pay(
                          create_contract_strategy_for_employee(employee[c][1], sel).value,
                          a.hours_worked)

C15_Witness ==
    \E c \in Callers :
        /\ pc[c] = "commit"
        /\ contract[c][1].effective_to # None
        /\ DateLess(contract[c][1].effective_to[1], args[c][1].pay_period_start)
        /\ \E other \in OwnContracts(args[c][1]) :
              /\ other.effective_to = None
              /\ DateLess(other.effective_from, contract[c][1].effective_from)

-----------------------------------------------------------------------------
(* End-to-end properties (specification SpecRun) *)

\* What the formula of the contract type pays on the contract's terms.
FormulaUnweighted(emp, con, hours) ==
    CASE emp.contract_type = STR_SALARIED ->
            Salaried_calculate_gross_pay(SalariedStrategy(con.base_salary[1]), hours)
      [] emp.contract_type = STR_PART_TIME ->
            PartTime_calculate_gross_pay(
                PartTimeStrategy(con.base_salary[1], con.hourly_rate[1],
                                 con.contract_hours[1]), hours)
      [] emp.contract_type = STR_HOURLY ->
            Hourly_calculate_gross_pay(HourlyStrategy(con.hourly_rate[1]), hours)

FormulaGross(emp, con, hours) ==
    IF IsLondonIgnoringCase(emp.branch)
    THEN London_calculate_gross_pay(FormulaUnweighted(emp, con, hours))
    ELSE FormulaUnweighted(emp, con, hours)

\* C16: the run a call returns is the row it persisted; its gross pay is
\* the formula of the employee's contract type on the terms of a contract
\* with the latest effective_from, weighted for London; its flag says
\* whether the branch is London.  Branch "London", HOURLY, rate 10, 40
\* hours: 534 and flag set.  Branch "Yeovil", SALARIED, base salary 2000,
\* 0 hours: 2000 and flag not set.
C16_EndToEnd ==
    \A c \in Callers :
        (outcome[c] # None /\ outcome[c][1].kind = "return") =>
            LET run == outcome[c][1].value
                emp == CHOOSE e \in employees : e.id = run.employee_id
                own == {r \in contracts : r.employee_id = run.employee_id}
            IN  /\ \E row \in payroll_runs :
                      /\ Some(row.id) = run.id
                      /\ row.hours_worked = run.hours_worked
                      /\ row.gross_pay = run.gross_pay
                      /\ (row.london_weighting_applied = 1) <=> run.london_weighting_applied
                /\ \E con \in own :
                      /\ \A other \in own :
                            ~ DateLess(fromisoformat(con.effective_from),
                                       fromisoformat(other.effective_from))
                      /\ run.gross_pay = FormulaGross(emp, con, run.hours_worked)
                /\ run.london_weighting_applied <=> IsLondonIgnoringCase(emp.branch)
                /\ (/\ emp.branch = <<"L", "o", "n", "d", "o", "n">>
                    /\ emp.contract_type = STR_HOURLY
                    /\ \A con \in own : con.hourly_rate = Some(Float(10, 0))
                    /\ run.hours_worked = Float(40, 0)) =>
                        /\ run.gross_pay = Float(534, 0)
                        /\ run.london_weighting_applied
                /\ (/\ emp.branch = <<"Y", "e", "o", "v", "i", "l">>
                    /\ emp.contract_type = STR_SALARIED
                    /\ \A con \in own : con.base_salary = Some(Float(2000, 0))
                    /\ run.hours_worked = Float(0, 0)) =>
                        /\ run.gross_pay = Float(2000, 0)
                        /\ ~ run.london_weighting_applied

C16_Witness ==
    \E c \in Callers :
        /\ outcome[c] # None /\ outcome[c][1].kind = "return"
        /\ outcome[c][1].value.hours_worked = Float(40, 0)
        /\ outcome[c][1].value.gross_pay = Float(534, 0)
        /\ outcome[c][1].value.london_weighting_applied
        /\ \E e \in employees :
              e.branch = <<"L", "o", "n", "d", "o", "n">> /\ e.contract_type = STR_HOURLY
        /\ \A con \in contracts : con.hourly_rate = Some(Float(10, 0))
        /\ \E row \in payroll_runs :
              Some(row.id) = outcome[c][1].value.id /\ row.gross_pay = Float(534, 0)

\* The stored runs made with the arguments of a call.
Twins(a) ==
    {row \in payroll_runs :
        /\ row.employee_id = a.employee_id
        /\ row.pay_period_start = isoformat(a.pay_period_start)
        /\ row.pay_period_end = isoformat(a.pay_period_end)
        /\ row.hours_worked = a.hours_worked}

\* C17: a call made with the arguments of an earlier successful call does
\* not fail; it stores a further row and every earlier row stays, with an
\* id different from the new one.
C17_SecondCallAddsSecondRow ==
    [][\A c \in Callers :
        /\ (Steps(c) /\ pc[c] # "idle" /\ Twins(args[c][1]) # {}) => ~ Fails(c)
        /\ (Steps(c) /\ pc[c] = "commit") =>
              /\ Returns(c)
              /\ \E row \in payroll_runs' \ payroll_runs :
                    /\ payroll_runs' = payroll_runs \cup {row}
                    /\ Cardinality(payroll_runs') = Cardinality(payroll_runs) + 1
                    /\ \A twin \in Twins(args[c][1]) :
                          twin \in payroll_runs' /\ twin.id # row.id
      ]_vars

C17_Witness ==
    \E first \in payroll_runs, second \in payroll_runs :
        /\ first.id # second.id
        /\ [first EXCEPT !.id = second.id] = second
        /\ outcome[RunCaller] # None /\ outcome[RunCaller][1].kind = "return"
        /\ outcome[RunCaller][1].value.id = Some(second.id)

\* C18: the PayrollRun is built with id None and keeps it until the insert
\* is committed; the run returned is that run with the id of the row the
\* call inserted, which is the id AUTOINCREMENT handed out.
C18_ReturnedIdIsStoredId ==
    [][\A c \in Callers :
        /\ pc'[c] \in {"insert", "commit"} => payroll_run'[c][1].id = None
        /\ Returns(c) =>
              \E row \in payroll_runs' \ payroll_runs :
                  /\ row.id = next_id("payroll_runs")
                  /\ sqlite_sequence'.payroll_runs = row.id
                  /\ outcome'[c][1].value.id # None
                  /\ outcome'[c][1].value = [payroll_run[c][1] EXCEPT !.id = Some(row.id)]
      ]_vars

C18_Witness ==
    \E c \in Callers :
        /\ pc[c] = "idle"
        /\ outcome[c] # None /\ outcome[c][1].kind = "return"
        /\ outcome[c][1].value.id = Some(sqlite_sequence.payroll_runs)
        /\ \E row \in payroll_runs : row.id = sqlite_sequence.payroll_runs
        /\ \A row \in payroll_runs : row.id <= sqlite_sequence.payroll_runs

\* C19: no run with negative hours_worked is built or persisted; a call
\* with negative hours_worked ends with an exception.
C19_NegativeHoursRejected ==
    /\ \A row \in payroll_runs : row.hours_worked >= 0
    /\ \A c \in Callers :
          (args[c] # None /\ args[c][1].hours_worked < 0) =>
              pc[c] \notin {"insert", "commit"}

-----------------------------------------------------------------------------
(* The kinds of failure (specification Spec) *)

\* The failure is one of lines 85 and 89-91.
IsNotFoundFailure(o) ==
    /\ o.kind = "raise"
    /\ o.message \in {"Employee with id {employee_id} not found.",
                      "No active contract found for employee {employee_id}."}

\* The failure is one of the factory's, lines 29-55.
IsValidationFailure(o) ==
    /\ o.kind = "raise"
    /\ o.message \in {"Base salary is required for salaried contract.",
                      "Base salary, hourly rate and contract hours are required for part-time contract.",
                      "Hourly rate is required for hourly contract.",
                      "Unknown contract type"}

\* C20: a call that is over has left its caller a run or an exception, and
\* the exception of a not-found failure is of another type than the
\* exception of a validation failure.
C20_FailureKindsDiffer ==
    /\ \A c \in Callers :
          (pc[c] = "idle" /\ args[c] = None /\ outcome[c] # None) =>
              outcome[c][1].kind \in {"return", "raise"}
    /\ \A c1 \in Callers, c2 \in Callers :
          (/\ outcome[c1] # None /\ outcome[c2] # None
           /\ IsNotFoundFailure(outcome[c1][1])
           /\ IsValidationFailure(outcome[c2][1])) =>
                outcome[c1][1].type # outcome[c2][1].type

-----------------------------------------------------------------------------
(* Concurrent callers and the audit trail (specification Spec) *)

\* C21 as stated: a call at its insert is never held up by the other
\* caller's uncommitted insert, and no call ends with "database is locked".
C21_NeitherBlocksNorFails ==
    \A c \in Callers :
        /\ ~ (pc[c] = "insert" /\ txn # None /\ txn[1].owner # c)
        /\ outcome[c] # Some(Raise("sqlite3.OperationalError", "database is locked"))

\* C21, amended: the inserts of concurrent calls are serialised by the
\* database's write lock.  An insert goes ahead when no other insert is
\* uncommitted; otherwise the call ends with OperationalError "database is
\* locked" and nothing is changed.  Every call that returns has added its
\* own row under an id no stored row carries, and every stored row stays.
C21_SerialisedInserts ==
    [][\A c \in Callers :
        /\ (pc[c] = "insert" /\ Steps(c)) =>
              IF txn = None
              THEN pc'[c] = "commit" /\ txn' # None /\ txn'[1].owner = c
              ELSE /\ Fails(c)
                   /\ outcome'[c][1] =
                         Raise("sqlite3.OperationalError", "database is locked")
                   /\ payroll_runs' = payroll_runs /\ txn' = txn
        /\ Returns(c) =>
              /\ payroll_runs \subseteq payroll_runs'
              /\ \E row \in payroll_runs' \ payroll_runs :
                    /\ outcome'[c][1].value.id = Some(row.id)
                    /\ \A old \in payroll_runs : old.id # row.id
      ]_vars

C21_Witness ==
    /\ \A c \in Callers : outcome[c] # None /\ outcome[c][1].kind = "return"
    /\ outcome["cli"][1].value.id # outcome["gui"][1].value.id
    /\ outcome["cli"][1].value.employee_id = outcome["gui"][1].value.employee_id
    /\ outcome["cli"][1].value.pay_period_start = outcome["gui"][1].value.pay_period_start
    /\ \A c \in Callers :
          \E row \in payroll_runs : Some(row.id) = outcome[c][1].value.id
    /\ Cardinality(payroll_runs) = 2

\* C22: no step of the system removes or alters a row of payroll_runs.
C22_AppendOnly ==
    [][\A row \in payroll_runs : row \in payroll_runs']_vars

C22_Witness ==
    /\ Cardinality(payroll_runs) = 2
    /\ \E c \in Callers :
          outcome[c] = Some(Raise("sqlite3.OperationalError", "commit failed"))

\* The steps a call may take, by where it is before and after.
CallOrder ==
    {<<"idle", "get_employee">>, <<"get_employee", "get_active_contract">>,
     <<"get_employee", "idle">>, <<"get_active_contract", "insert">>,
     <<"get_active_contract", "idle">>, <<"insert", "commit">>,
     <<"insert", "idle">>, <<"commit", "idle">>}

\* C23: a call reads the employee, then the active contract, then inserts
\* the run, each once; it reaches the insert only holding the employee,
\* the contract and the run computed from them; it starts a transaction
\* only for the insert, and it never writes employees or contracts.
C23_StorageCallsInOrder ==
    [][\A c \in Callers :
        Steps(c) =>
            /\ <<pc[c], pc'[c]>> \in CallOrder
            /\ employees' = employees /\ contracts' = contracts
            /\ sqlite_sequence'.employees = sqlite_sequence.employees
            /\ sqlite_sequence'.contracts = sqlite_sequence.contracts
            /\ pc'[c] = "insert" =>
                  /\ employee'[c] # None /\ contract'[c] # None
                  /\ payroll_run'[c] =
                        Some(build_payroll_run(employee'[c][1], contract'[c][1],
                                               args'[c][1]).value)
            /\ (txn' # txn /\ txn' # None) => pc[c] = "insert"
            /\ (pc[c] = "commit" /\ pc'[c] = "idle") => txn' = None
      ]_vars

C23_Witness ==
    \E c \in Callers :
        /\ pc[c] = "commit"
        /\ employee[c] # None /\ contract[c] # None /\ payroll_run[c] # None
        /\ txn # None /\ txn[1].owner = c
        /\ txn[1].row.gross_pay = payroll_run[c][1].gross_pay

-----------------------------------------------------------------------------
(* Edits between the lookups and the insert (specification SpecRace) *)

\* C24: an edit of the employee or a further contract takes effect in one
\* step, also between the steps of a call; the row a call inserts and
\* commits carries the gross pay and the flag computed from the employee
\* and the contract the call read, whatever is stored by then.
C24_RunReflectsValuesRead ==
    [][/\ \A row \in employees' :
            (upper(row.branch) = STR_LONDON) <=> (row.contract_type = STR_HOURLY)
       /\ \A c \in Callers :
            /\ (pc[c] = "insert" /\ pc'[c] = "commit") =>
                  /\ txn'[1].row.gross_pay =
                        calculate_gross_pay(
                            create_contract_strategy_for_employee(employee[c][1],
                                                                  contract[c][1]).value,
                            args[c][1].hours_worked)
                  /\ (txn'[1].row.london_weighting_applied = 1)
                        <=> (upper(employee[c][1].branch) = STR_LONDON)
            /\ Returns(c) => payroll_runs' = payroll_runs \cup {txn[1].row}
      ]_vars

C24_Witness ==
    \E c \in Callers :
        /\ pc[c] = "commit"
        /\ txn # None
        /\ txn[1].row.london_weighting_applied = 1
        /\ txn[1].row.gross_pay = Float(534, 0)
        /\ \A row \in employees :
              row.branch = <<"Y", "e", "o", "v", "i", "l">> /\ row.contract_type = STR_SALARIED
        /\ Cardinality(contracts) = 2

-----------------------------------------------------------------------------
(* The casing of the contract type (specification SpecRegister) *)

\* C25: the factory's result for an employee is its result for the same
\* employee with the contract type in any other casing, and no stored
\* employee row, added or updated, has a lower-case letter in its contract
\* type.
C25_ContractTypeCaseInsensitive ==
    /\ fac_outcome # None =>
          \A t \in RegisterTypes :
              SameIgnoringCase(fac_employee[1].contract_type, t) =>
                  fac_outcome[1] =
                      create_contract_strategy_for_employee(
                          [branch |-> fac_employee[1].branch, contract_type |-> t],
                          fac_contract[1])
    /\ \A row \in employees :
          \A i \in 1..Len(row.contract_type), k \in DOMAIN LowerCase :
              row.contract_type[i] # LowerCase[k]

C25_Witness ==
    /\ fac_employee[1].contract_type = <<"h", "o", "u", "r", "l", "y">>
    /\ fac_contract[1].hourly_rate # None
    /\ fac_outcome # None /\ fac_outcome[1].kind = "return"
    /\ \E row \in employees :
          row.contract_type = <<"C", "O", "N", "T", "R", "A", "C", "T", "O", "R">>

-----------------------------------------------------------------------------
(* Where a contract type is rejected, and which failure comes first        *)
(* (specification Spec)                                                     *)

\* The contract type is one of the three, in any casing.
IsRecognised(t) ==
    \E known \in {STR_SALARIED, STR_PART_TIME, STR_HOURLY} : SameIgnoringCase(t, known)

\* C26: whenever an employee can be stored at all (no transaction open, an
\* id left, ni_number not taken), an employee of contract type "CONTRACTOR"
\* can be stored; a call fails with "Unknown contract type" only for a
\* stored employee of an unrecognised type, and no call gets as far as the
\* insert for such an employee.
C26_ValidationDeferred ==
    /\ \A n \in NINumbers, e \in SpecEmployees :
          (/\ txn = None
           /\ next_id("employees") <= MaxEmployees
           /\ \A row \in employees : row.ni_number # n) =>
                ENABLED AddEmployee([ni_number |-> n, branch |-> e.branch,
                                     contract_type |->
                                        <<"C", "O", "N", "T", "R", "A", "C", "T", "O", "R">>])
    /\ \A c \in Callers :
          /\ outcome[c] = Some(Raise("ValueError", "Unknown contract type")) =>
                \E row \in employees : ~ IsRecognised(row.contract_type)
          /\ pc[c] \in {"insert", "commit"} => IsRecognised(employee[c][1].contract_type)

C26_Witness ==
    /\ \E row \in employees :
          row.contract_type = <<"C", "O", "N", "T", "R", "A", "C", "T", "O", "R">>
    /\ \E c \in Callers : outcome[c] = Some(Raise("ValueError", "Unknown contract type"))
    /\ payroll_runs = {}

\* C30: a call for an id no employee row carries fails with "employee not
\* found" even though contracts of that id are stored; a call for an
\* employee without contracts fails with "no active contract" even though
\* the employee's contract type is unrecognised; and when the factory
\* raises, it raises the same for the employee at any other branch.
C30_FailurePrecedence ==
    [][\A c \in Callers :
        LET a == args[c][1]
            own == {row \in contracts : row.employee_id = a.employee_id}
        IN  /\ (/\ pc[c] = "get_employee" /\ Steps(c)
                /\ \A row \in employees : row.id # a.employee_id
                /\ own # {}) =>
                    /\ Fails(c)
                    /\ IsNotFoundFailure(outcome'[c][1])
                    /\ outcome'[c][1].message = "Employee with id {employee_id} not found."
            /\ (/\ pc[c] = "get_active_contract" /\ Steps(c)
                /\ own = {}
                /\ ~ IsRecognised(employee[c][1].contract_type)) =>
                    /\ Fails(c)
                    /\ outcome'[c][1].message =
                          "No active contract found for employee {employee_id}."
            /\ (/\ pc[c] = "get_active_contract" /\ Fails(c)
                /\ own # {}) =>
                    /\ IsValidationFailure(outcome'[c][1])
                    /\ \E row \in own : \A b \in BranchValues :
                          outcome'[c][1] =
                              create_contract_strategy_for_employee(
                                  [employee[c][1] EXCEPT !.branch = b],
                                  row_to_contract(row))
      ]_vars

C30_Witness ==
    /\ \E c \in Callers :
          outcome[c] = Some(Raise("ValueError", "Employee with id {employee_id} not found."))
    /\ \E c \in Callers :
          outcome[c] =
             Some(Raise("ValueError", "No active contract found for employee {employee_id}."))
    /\ \E row \in employees : ~ IsRecognised(row.contract_type)
    /\ \E con \in contracts : \A row \in employees : row.id # con.employee_id

-----------------------------------------------------------------------------
(* Ties, negative hours and the sign of gross pay (specification SpecRun) *)

\* C27: among the employee's contracts that share the latest
\* effective_from the call selects the one with the highest id, and two
\* stored runs of the same employee for the same hours carry the same
\* gross pay.
C27_TieBrokenByHighestId ==
    /\ \A c \in Callers :
          pc[c] \in {"insert", "commit"} =>
              \A other \in OwnContracts(args[c][1]) :
                  other.effective_from = contract[c][1].effective_from =>
                      other.id <= contract[c][1].id
    /\ \A first \in payroll_runs, second \in payroll_runs :
          (/\ first.employee_id = second.employee_id
           /\ first.hours_worked = second.hours_worked) =>
                first.gross_pay = second.gross_pay

\* The contract rows of an employee whose effective_from is the latest.
LatestContracts(employee_id) ==
    LET own == {r \in contracts : r.employee_id = employee_id}
    IN  {r \in own :
            \A other \in own :
                ~ DateLess(fromisoformat(r.effective_from),
                           fromisoformat(other.effective_from))}

\* The amount before weighting: the stored amount is that times 1.2 when
\* the flag is set, and that amount itself when it is not.
IsUnweightedOf(row, amount) ==
    IF row.london_weighting_applied = 1
    THEN 100 * row.gross_pay = 120 * amount
    ELSE row.gross_pay = amount

\* C28: a call with negative hours_worked does not fail for the hours; the
\* run it persists is, before weighting, hours_worked * hourly_rate for an
\* HOURLY employee (negative), base_salary for a PART_TIME employee (no
\* overtime) and base_salary for a SALARIED one.
C28_NegativeHoursNotValidated ==
    /\ \A c \in Callers :
          (outcome[c] # None /\ outcome[c][1].kind = "raise") => contracts = {}
    /\ \A row \in payroll_runs :
          row.hours_worked < 0 =>
              LET emp == CHOOSE e \in employees : e.id = row.employee_id
              IN  \E con \in LatestContracts(row.employee_id) :
                      /\ emp.contract_type = STR_HOURLY =>
                            /\ IsUnweightedOf(row, (row.hours_worked * con.hourly_rate[1]) \div 100)
                            /\ 100 * ((row.hours_worked * con.hourly_rate[1]) \div 100)
                                  = row.hours_worked * con.hourly_rate[1]
                            /\ row.gross_pay < 0
                      /\ emp.contract_type = STR_PART_TIME =>
                            IsUnweightedOf(row, con.base_salary[1])
                      /\ emp.contract_type = STR_SALARIED =>
                            IsUnweightedOf(row, con.base_salary[1])

C28_Witness ==
    /\ \E e \in employees :
          e.contract_type = STR_HOURLY /\ e.branch = <<"Y", "e", "o", "v", "i", "l">>
    /\ \E row \in payroll_runs :
          row.hours_worked = Float(-5, 0) /\ row.gross_pay = Float(-50, 0)

\* C29: with every stored contract term non-negative, a persisted run with
\* hours_worked >= 0 has gross_pay >= 0, and when its flag is set its
\* gross_pay is the weighted amount of a contract with the latest
\* effective_from and is not below that contract's unweighted amount for
\* the same hours.
C29_GrossPayNonNegative ==
    (\A con \in contracts :
        \A term \in {con.base_salary, con.hourly_rate, con.contract_hours} :
            term # None => term[1] >= 0) =>
        \A row \in payroll_runs :
            row.hours_worked >= 0 =>
                /\ row.gross_pay >= 0
                /\ row.london_weighting_applied = 1 =>
                      LET emp == CHOOSE e \in employees : e.id = row.employee_id
                      IN  \E con \in LatestContracts(row.employee_id) :
                              /\ IsUnweightedOf(row,
                                    FormulaUnweighted(emp, con, row.hours_worked))
                              /\ row.gross_pay >=
                                    FormulaUnweighted(emp, con, row.hours_worked)

C29_Witness ==
    /\ \E e \in employees : e.contract_type = STR_PART_TIME
    /\ \E row \in payroll_runs :
          /\ row.hours_worked = Float(40, 0)
          /\ row.london_weighting_applied = 1
          /\ row.gross_pay = Float(3000, 0)

=============================================================================
